---------------------------- MODULE Spec2Model ----------------------------
(***************************************************************************)
(* Model of the job tracker bot: the jobs and subscribers tables of db.py, *)
(* the reconcile transaction save_jobs, the queries, the notifier of       *)
(* telegram_bot.py (send_message, send_bulk) and the daily cycle           *)
(* check_and_notify_new_jobs driven by the APScheduler job.                *)
(*                                                                         *)
(* Dates are day numbers: datetime.now().date() is stored by sqlite3's     *)
(* date adapter as ISO text, whose equality and order are those of the day *)
(* number.                                                                 *)
(***************************************************************************)
EXTENDS Integers, Sequences, FiniteSets, TLC

\* ------------------------------------------------------------------ bounds
MaxDay == 2
MaxLen == 2
MaxUsers == 3
SpecChats == 1
FaultChats == 2
MaxFaults == 1
MaxCallers == 2
LeaveChats == 2
RegChats == 2
LiveChats == 1
LiveFaults == 2

Days == 1..MaxDay
Urls == {"/a", "/b"}
Names == {"Engineer", "Analyst"}
Users == 1..MaxUsers
Callers == 1..MaxCallers

Job == [name : Names, url : Urls]

\* The candidate lists get_jobs can return: every list of at most MaxLen jobs,
\* the empty one and those that repeat a url included.
CandLists == UNION {[1..n -> Job] : n \in 0..MaxLen}

\* The lists the bot's fetches draw from: the page names each posting by one title.
Title(url) == IF url = "/a" THEN "Engineer" ELSE "Analyst"

PageLists == {c \in CandLists : \A i \in DOMAIN c : c[i].name = Title(c[i].url)}

VARIABLES
    jobs,         \* committed rows of table jobs, in rowid order (id = index)
    subscribers,  \* committed user_id values of table subscribers
    today,        \* datetime.now().date()
    sv,           \* the save_jobs call in progress: its open transaction
    cyc,          \* the frame of check_and_notify_new_jobs
    instances,    \* APScheduler's count of running instances of 'daily_job_check'
    phase,        \* "api": db.py called directly; "boot": main.py; "run": bot running
    cronDay,      \* the last day on which the 09:00 trigger fired
    chats,        \* the Telegram chats that talk to the bot
    faults,       \* how many more times a storage operation may raise (sqlite3.Error)
    calls,        \* the subscribe_user calls in progress, one frame per caller
    hist,         \* the current_date of the last save_jobs that committed (0: none
                  \* yet) and whether a date correction has changed a row
    ev            \* the operation that made the last step, with its arguments and result

vars == <<jobs, subscribers, today, sv, cyc, instances, cronDay, phase, chats, faults, calls,
          hist, ev>>

\* ------------------------------------------------------------ table jobs

\* init_database: both tables are created empty.
EmptyTable == <<>>

RowUrls(rows) == {rows[i].url : i \in DOMAIN rows}

ActiveUrls(rows) == {rows[i].url : i \in {j \in DOMAIN rows : rows[j].is_active}}

\* A reconcile that leaves the rows as they are.
DeactivateNone(rows) == rows

\* A reconcile that starts from an empty table.
DeleteAll(rows) == <<>>

\* UPDATE jobs SET is_active = FALSE
DeactivateAll(rows) == [i \in DOMAIN rows |-> [rows[i] EXCEPT !.is_active = FALSE]]

\* A lookup that sees only the active rows.
SelectByUrlActiveOnly(rows, url) ==
    {i \in DOMAIN rows : rows[i].url = url /\ rows[i].is_active}

\* SELECT id, first_seen FROM jobs WHERE url = ?
SelectByUrl(rows, url) == {i \in DOMAIN rows : rows[i].url = url}

\* An UPDATE that leaves last_seen as it is.
UpdateSeenKeepDate(rows, job, date) ==
    [i \in DOMAIN rows |->
        IF rows[i].url = job.url
        THEN [rows[i] EXCEPT !.name = job.name, !.is_active = TRUE]
        ELSE rows[i]]

\* An UPDATE that leaves the name as it is.
UpdateSeenKeepName(rows, job, date) ==
    [i \in DOMAIN rows |->
        IF rows[i].url = job.url
        THEN [rows[i] EXCEPT !.last_seen = date, !.is_active = TRUE]
        ELSE rows[i]]

\* An UPDATE that forgets is_active.
UpdateSeenNotActive(rows, job, date) ==
    [i \in DOMAIN rows |->
        IF rows[i].url = job.url
        THEN [rows[i] EXCEPT !.name = job.name, !.last_seen = date]
        ELSE rows[i]]

\* UPDATE jobs SET name = ?, last_seen = ?, is_active = TRUE WHERE url = ?
UpdateSeen(rows, job, date) ==
    [i \in DOMAIN rows |->
        IF rows[i].url = job.url
        THEN [rows[i] EXCEPT !.name = job.name, !.last_seen = date, !.is_active = TRUE]
        ELSE rows[i]]

\* INSERT INTO jobs (name, url, first_seen, last_seen, is_active) VALUES (?, ?, ?, ?, TRUE)
InsertJob(rows, job, date) ==
    Append(rows, [name |-> job.name, url |-> job.url, first_seen |-> date,
                  last_seen |-> date, is_active |-> TRUE])

\* One pass of the loop of save_jobs over st = [rows, new, updated].
SaveOne(st, job, date) ==
    IF SelectByUrl(st.rows, job.url) # {}
    THEN [rows |-> UpdateSeen(st.rows, job, date), new |-> st.new,
          updated |-> st.updated + 1]
    ELSE [rows |-> InsertJob(st.rows, job, date), new |-> st.new + 1,
          updated |-> st.updated]

RECURSIVE SaveLoop(_, _, _)
SaveLoop(st, cands, date) ==
    IF cands = <<>> THEN st
    ELSE SaveLoop(SaveOne(st, Head(cands), date), Tail(cands), date)

\* ORDER BY first_seen DESC over the row ids in `ids`; rows of one date come in
\* rowid order.
RECURSIVE OrderByFirstSeenDesc(_, _)
OrderByFirstSeenDesc(rows, ids) ==
    IF ids = {} THEN <<>>
    ELSE LET top == CHOOSE i \in ids :
                        \A j \in ids :
                            \/ rows[i].first_seen > rows[j].first_seen
                            \/ rows[i].first_seen = rows[j].first_seen /\ i <= j
         IN  <<rows[top]>> \o OrderByFirstSeenDesc(rows, ids \ {top})

\* get_all_jobs(db_path, active_only)
get_all_jobs(rows, active_only) ==
    OrderByFirstSeenDesc(rows,
        {i \in DOMAIN rows : active_only => rows[i].is_active})

\* get_new_jobs_today(db_path): WHERE first_seen = today AND is_active = TRUE
get_new_jobs_today(rows, day) ==
    OrderByFirstSeenDesc(rows,
        {i \in DOMAIN rows : rows[i].first_seen = day /\ rows[i].is_active})

SeqUrls(s) == {s[i].url : i \in DOMAIN s}

\* A view that shows the writer's uncommitted rows.
DirtyView == IF sv.pc = "open" THEN sv.txn ELSE jobs

\* What a query on a connection of its own reads: each function of db.py opens
\* its connection with sqlite3.connect, so it reads the committed rows.
ReadView == jobs

\* ------------------------------------------------------------- save_jobs

SvIdle == [pc |-> "idle"]

\* No save_jobs has committed and no date was corrected.
NoHistory == [date |-> 0, corrected |-> FALSE]

\* The save_jobs call that returned in the step before, if one did.
Previous ==
    IF ev.op = "save_jobs"
    THEN [valid |-> TRUE, cands |-> ev.cands, active |-> ActiveUrls(jobs)]
    ELSE [valid |-> FALSE]

\* save_jobs up to the blanket UPDATE: current_date is taken, the implicit
\* transaction opens and every row is deactivated in it.
SaveBegin(cands) ==
    /\ sv.pc = "idle"
    /\ sv' = [pc |-> "open", cands |-> cands, date |-> today,
              txn |-> DeactivateAll(jobs), pre |-> jobs, last |-> Previous]

\* The loop over the candidates, in the transaction.
SaveResult == SaveLoop([rows |-> sv.txn, new |-> 0, updated |-> 0], sv.cands, sv.date)

SaveEvent(cands, date, pre, st, last) ==
    [op |-> "save_jobs", cands |-> cands, date |-> date, pre |-> pre,
     new |-> st.new, updated |-> st.updated,
     again |-> (last.valid /\ last.cands = cands),
     lastActive |-> IF last.valid THEN last.active ELSE {}]

\* conn.commit() and the return of (new_jobs, updated_jobs).
SaveCommit ==
    /\ sv.pc = "open"
    /\ LET st == SaveResult
       IN  /\ jobs' = st.rows
           /\ ev' = SaveEvent(sv.cands, sv.date, sv.pre, st, sv.last)
    /\ hist' = [hist EXCEPT !.date = sv.date]
    /\ sv' = SvIdle

\* An exception inside the with block: the connection rolls back. 
SaveRaise ==
    /\ sv.pc = "open"
    /\ faults > 0
    /\ faults' = faults - 1
    /\ sv' = SvIdle
    /\ ev' = [op |-> "save_jobs_raised"]
    /\ UNCHANGED <<jobs, hist>>

\* An UPDATE of first_seen without its WHERE.
UpdateDateAllRows(rows, url, date) ==
    [i \in DOMAIN rows |-> [rows[i] EXCEPT !.first_seen = date]]

\* update_discovery_date_by_url(db_path, job_url, new_date)
UpdateDateRows(rows, url, date) ==
    [i \in DOMAIN rows |->
        IF rows[i].url = url THEN [rows[i] EXCEPT !.first_seen = date] ELSE rows[i]]

update_discovery_date_by_url(url, date) ==
    /\ sv.pc = "idle"
    /\ IF SelectByUrl(jobs, url) # {}
       THEN /\ jobs' = UpdateDateRows(jobs, url, date)
            /\ hist' = [hist EXCEPT !.corrected = TRUE]
            /\ ev' = [op |-> "update_discovery_date", url |-> url, date |-> date,
                      pre |-> jobs, ret |-> TRUE]
       ELSE /\ jobs' = jobs
            /\ hist' = hist
            /\ ev' = [op |-> "update_discovery_date", url |-> url, date |-> date,
                      pre |-> jobs, ret |-> FALSE]

ReadOps == {"get_all_jobs", "get_new_jobs_today"}

RunQuery(op, rows, day) ==
    IF op = "get_all_jobs" THEN get_all_jobs(rows, TRUE)
    ELSE get_new_jobs_today(rows, day)

ReadEvent(op) == [op |-> op, result |-> RunQuery(op, ReadView, today)]

botVars == <<subscribers, cyc, instances, cronDay, phase, chats, calls, faults>>

\* Midnight passes.
NextDay ==
    /\ today < MaxDay
    /\ today' = today + 1
    /\ ev' = [op |-> "midnight"]
    /\ UNCHANGED <<jobs, sv, hist, botVars>>

\* ------------------------------------------------------- table subscribers

\* get_subscribers: SELECT user_id FROM subscribers, in user_id (rowid) order.
RECURSIVE get_subscribers(_)
get_subscribers(subs) ==
    IF subs = {} THEN <<>>
    ELSE LET m == CHOOSE u \in subs : \A v \in subs : u <= v
         IN  <<m>> \o get_subscribers(subs \ {m})

\* subscribe_user: the row is inserted unless the id has one; True if inserted.
subscribe_user(subs, u) == [subs |-> subs \cup {u}, ret |-> u \notin subs]

\* A DELETE that reports a deleted row whatever it found.
UnsubscribeReportsTrue(subs, u) == [subs |-> subs \ {u}, ret |-> TRUE]

\* unsubscribe_user: DELETE ... WHERE user_id = ?; True if a row was deleted.
unsubscribe_user(subs, u) == [subs |-> subs \ {u}, ret |-> u \in subs]

is_subscribed(subs, u) == u \in subs

\* No caller is inside subscribe_user.
CallIdle == [pc |-> "idle"]

NoCalls == [p \in Callers |-> CallIdle]

\* ---------------------------------------------------------------- notifier

\* What bot.send_message does for one call: it returns, or raises an error
\* with one of these texts (lower-cased, as send_message compares them).
SendOutcomes == {"ok", "forbidden: bot was blocked by the user", "chat not found",
                 "timed out"}

PermanentErrors == {"forbidden: bot was blocked by the user", "chat not found"}

\* A test that takes every failure for a permanent one.
IsFailure(err) == err # "ok"

\* A test that knows only the blocked case.
IsBlockedOnly(err) == err = "forbidden: bot was blocked by the user"

\* "bot was blocked" in str(e).lower() or "chat not found" in str(e).lower()
IsPermanent(err) ==
    err \in {"forbidden: bot was blocked by the user", "chat not found"}

\* A handler that clears the registry on a permanent failure.
SendMessageClearsRegistry(subs, chat, outcome) ==
    IF outcome = "ok" THEN [subs |-> subs, ret |-> TRUE]
    ELSE IF IsPermanent(outcome)
         THEN [subs |-> {}, ret |-> FALSE]
         ELSE [subs |-> subs, ret |-> FALSE]

\* send_message(chat_id, message): the registry after it and what it returns.
send_message(subs, chat, outcome) ==
    IF outcome = "ok" THEN [subs |-> subs, ret |-> TRUE]
    ELSE IF IsPermanent(outcome)
         THEN [subs |-> unsubscribe_user(subs, chat).subs, ret |-> FALSE]
         ELSE [subs |-> subs, ret |-> FALSE]

\* ------------------------------------------------------------------- cycle

\* add_job(..., id='daily_job_check') sets no max_instances: APScheduler's
\* default of one running instance per job applies.
max_instances == 1

\* A scheduler that submits every run.
SubmitAlways(running) == TRUE

\* The scheduler's test before it submits a run of the job.
MaySubmit(running) == running < max_instances

Templates == {"new", "none_new", "no_jobs", "error"}

NoMsg == [template |-> "none"]

CycIdle ==
    [pc |-> "idle", fetchFailed |-> FALSE, jobs |-> <<>>, new |-> 0, updated |-> 0,
     nojobs |-> FALSE, reconciled |-> FALSE, mode |-> "none", msg |-> NoMsg,
     list |-> <<>>, idx |-> 0, successful |-> 0, failed |-> 0, delivered |-> {}, permanent |-> {},
     attempts |-> [u \in Users |-> <<>>], audience |-> {}, start |-> <<>>,
     escaped |-> FALSE]

\* What the page fetch can do: answer with a job list, or fail in the request
\* or in the parse.
FetchOutcomes ==
    [ok : {TRUE}, jobs : PageLists] \cup [ok : {FALSE}, jobs : {<<>>}]

\* get_jobs(): the parsed list; both except branches return [].
get_jobs(outcome) == IF outcome.ok THEN outcome.jobs ELSE <<>>

\* A cycle that reconciles whatever the fetch returned.
ReconcileAlways(fetched) == TRUE

\* `if jobs:` in check_and_notify_new_jobs and in main.py.
ShouldReconcile(fetched) == fetched # <<>>

\* A choice that looks at the count alone.
DailyTemplateByCount(new_jobs_count, no_jobs_found) ==
    IF new_jobs_count > 0 THEN "new" ELSE "none_new"

\* The template of notify_subscribers_daily_update.
DailyTemplate(new_jobs_count, no_jobs_found) ==
    IF no_jobs_found THEN "no_jobs"
    ELSE IF new_jobs_count > 0 THEN "new"
    ELSE "none_new"

\* The message of notify_subscribers_daily_update, built from the counts and
\* from the store as the queries read it.
DailyMessage(new_jobs_count, no_jobs_found) ==
    LET t == DailyTemplate(new_jobs_count, no_jobs_found)
    IN  [template |-> t,
         count |-> new_jobs_count,
         entries |-> IF t = "new" THEN get_new_jobs_today(ReadView, today) ELSE <<>>,
         total_active |-> IF t = "none_new" THEN Len(get_all_jobs(ReadView, TRUE)) ELSE 0]

ErrorMessage == [template |-> "error", count |-> 0, entries |-> <<>>, total_active |-> 0]

storeVars == <<jobs, sv, hist>>

\* The scheduler's 09:00 trigger of the day: the job is submitted unless
\* max_instances of it are running, and then the run is skipped.
Trigger ==
    /\ phase = "run"
    /\ cronDay < today
    /\ cronDay' = today
    /\ IF MaySubmit(instances)
       THEN /\ instances' = instances + 1
            /\ cyc' = [CycIdle EXCEPT !.pc = "fetch", !.start = jobs]
            /\ ev' = [op |-> "trigger", started |-> TRUE, before |-> cyc]
       ELSE /\ ev' = [op |-> "trigger", started |-> FALSE, before |-> cyc]
            /\ UNCHANGED <<instances, cyc>>
    /\ UNCHANGED <<storeVars, subscribers, today, phase, chats, calls, faults>>

\* jobs = get_jobs() and the `if jobs:` that follows.
Fetch ==
    /\ cyc.pc = "fetch"
    /\ \E outcome \in FetchOutcomes :
          LET fetched == get_jobs(outcome)
          IN  /\ cyc' = [cyc EXCEPT !.fetchFailed = ~outcome.ok,
                                    !.jobs = fetched,
                                    !.nojobs = ~ShouldReconcile(fetched),
                                    !.pc = IF ShouldReconcile(fetched)
                                           THEN "save" ELSE "notify"]
              /\ ev' = [op |-> "get_jobs", ok |-> outcome.ok]
    /\ UNCHANGED <<storeVars, subscribers, today, instances, cronDay, phase, chats, calls, faults>>

\* save_jobs(self.db_path, jobs) is entered.
CycleSaveBegin ==
    /\ cyc.pc = "save"
    /\ SaveBegin(cyc.jobs)
    /\ cyc' = [cyc EXCEPT !.pc = "saving"]
    /\ ev' = [op |-> "save_jobs_begin"]
    /\ UNCHANGED <<jobs, hist, subscribers, today, instances, cronDay, phase, chats, calls, faults>>

\* save_jobs returns the counts.
CycleSaveCommit ==
    /\ cyc.pc = "saving"
    /\ SaveCommit
    /\ cyc' = [cyc EXCEPT !.pc = "notify", !.new = SaveResult.new,
                          !.updated = SaveResult.updated, !.reconciled = TRUE]
    /\ UNCHANGED <<subscribers, today, instances, cronDay, phase, chats, calls, faults>>

\* save_jobs raises: the except clause of the cycle takes over.
CycleSaveRaise ==
    /\ cyc.pc = "saving"
    /\ SaveRaise
    /\ cyc' = [cyc EXCEPT !.pc = "error"]
    /\ UNCHANGED <<subscribers, today, instances, cronDay, phase, chats, calls>>

\* notify_subscribers_daily_update up to the call of send_bulk.
NotifyDaily ==
    /\ cyc.pc = "notify"
    /\ \/ LET subs == get_subscribers(subscribers)
              m == DailyMessage(cyc.new, cyc.nojobs)
          IN  /\ cyc' = IF subs = <<>>
                        THEN [cyc EXCEPT !.pc = "done"]
                        ELSE [cyc EXCEPT !.pc = "sending", !.mode = "daily", !.msg = m,
                                         !.list = subs, !.idx = 1,
                                         !.audience = subscribers]
              /\ ev' = [op |-> "notify_daily", template |-> m.template]
              /\ faults' = faults
       \/ \* get_subscribers or a query of the message raises
          /\ faults > 0
          /\ faults' = faults - 1
          /\ cyc' = [cyc EXCEPT !.pc = "error"]
          /\ ev' = [op |-> "notify_daily_raised"]
    /\ UNCHANGED <<storeVars, subscribers, today, instances, cronDay, phase, chats, calls>>

\* notify_subscribers_error up to the call of send_bulk.
NotifyError ==
    /\ cyc.pc = "error"
    /\ LET subs == get_subscribers(subscribers)
       IN  cyc' = IF subs = <<>>
                  THEN [cyc EXCEPT !.pc = "done"]
                  ELSE [cyc EXCEPT !.pc = "sending", !.mode = "error",
                                   !.msg = ErrorMessage,
                                   !.list = subs, !.idx = 1,
                                   !.successful = 0, !.failed = 0,
                                   !.delivered = {}, !.permanent = {},
                                   !.audience = IF cyc.audience = {}
                                                THEN subscribers
                                                ELSE cyc.audience]
    /\ ev' = [op |-> "notify_error", template |-> "error"]
    /\ UNCHANGED <<storeVars, subscribers, today, instances, cronDay, phase, chats, calls, faults>>

\* get_subscribers raises in notify_subscribers_error: the exception leaves
\* check_and_notify_new_jobs, whose except clause is already running.
NotifyErrorRaise ==
    /\ cyc.pc = "error"
    /\ faults > 0
    /\ faults' = faults - 1
    /\ cyc' = [cyc EXCEPT !.pc = "done", !.escaped = TRUE]
    /\ ev' = [op |-> "notify_error_raised"]
    /\ UNCHANGED <<storeVars, subscribers, today, instances, cronDay, phase, chats, calls>>

\* The index after one pass of the loop that stops at the first failure.
StopAtFailure(idx, n, success) == IF success THEN idx + 1 ELSE n + 1

\* for user_id in subscribers: the index of the pass after this one.
NextIndex(idx, n, success) == idx + 1

\* One pass of the loop of send_bulk: send_message to subscribers[idx].
SendStep ==
    /\ cyc.pc = "sending"
    /\ cyc.idx <= Len(cyc.list)
    /\ LET user == cyc.list[cyc.idx]
           n == Len(cyc.list)
       IN  \E outcome \in SendOutcomes :
             LET r == send_message(subscribers, user, outcome)
                 att == [cyc.attempts EXCEPT ![user] = Append(@, cyc.msg.template)]
                 next == NextIndex(cyc.idx, n, r.ret)
             IN  \/ /\ subscribers' = r.subs
                    /\ cyc' = [cyc EXCEPT
                                 !.attempts = att,
                                 !.delivered = IF outcome = "ok" THEN @ \cup {user} ELSE @,
                                 !.permanent = IF outcome \in PermanentErrors
                                               THEN @ \cup {user} ELSE @,
                                 !.successful = IF r.ret THEN @ + 1 ELSE @,
                                 !.failed = IF r.ret THEN @ ELSE @ + 1,
                                 !.idx = next,
                                 !.pc = IF next > n THEN "done" ELSE "sending"]
                    /\ ev' = [op |-> "send_message", chat |-> user,
                              outcome |-> outcome, ret |-> r.ret, raised |-> FALSE]
                    /\ faults' = faults
                 \/ \* unsubscribe_user raises inside the handler of send_message
                    /\ faults > 0
                    /\ faults' = faults - 1
                    /\ IsPermanent(outcome)
                    /\ subscribers' = subscribers
                    /\ cyc' = [cyc EXCEPT
                                 !.attempts = att,
                                 !.pc = IF cyc.mode = "daily" THEN "error" ELSE "done",
                                 !.escaped = (cyc.mode = "error")]
                    /\ ev' = [op |-> "send_message", chat |-> user,
                              outcome |-> outcome, ret |-> FALSE, raised |-> TRUE]
    /\ UNCHANGED <<storeVars, today, instances, cronDay, phase, chats, calls>>

\* A wrapper that lets an exception of the cycle kill the run: it returns only
\* from a cycle that raised nothing.
FinishUnlessRaised ==
    /\ cyc.pc = "done"
    /\ ~cyc.escaped
    /\ cyc' = CycIdle
    /\ instances' = instances - 1
    /\ ev' = [op |-> "finish", escaped |-> FALSE]
    /\ UNCHANGED <<storeVars, subscribers, today, cronDay, phase, chats, calls, faults>>

\* check_and_notify_new_jobs_sync returns, after the cycle returned or after its
\* `except Exception` caught what the cycle raised: the scheduler counts the
\* instance out.
Finish ==
    /\ cyc.pc = "done"
    /\ cyc' = CycIdle
    /\ instances' = instances - 1
    /\ ev' = [op |-> "finish", escaped |-> cyc.escaped]
    /\ UNCHANGED <<storeVars, subscribers, today, cronDay, phase, chats, calls, faults>>

\* -------------------------------------------------------------- commands

\* What a registry command leaves in ev: the command; for /unsubscribe the
\* user who sent it; for /subscribe whether the send of the reply failed with
\* one of the permanent errors, and then the user it was addressed to.
CmdEvent(op, u, outcome) ==
    IF op = "unsubscribe" THEN [op |-> op, u |-> u]
    ELSE IF outcome \in PermanentErrors
         THEN [op |-> op, permanent |-> TRUE, u |-> u]
         ELSE [op |-> op, permanent |-> FALSE]

\* What /new and /active leave in ev: the query's result, and of the reply
\* what /subscribe leaves.
QueryEvent(op, u, outcome) ==
    IF outcome \in PermanentErrors
    THEN [op |-> op, result |-> RunQuery(op, ReadView, today), permanent |-> TRUE,
          u |-> u]
    ELSE [op |-> op, result |-> RunQuery(op, ReadView, today), permanent |-> FALSE]

\* /subscribe: subscribe_user, then the reply through send_message.
CmdSubscribe ==
    /\ phase = "run"
    /\ \E u \in chats, outcome \in SendOutcomes :
          LET a == subscribe_user(subscribers, u)
              r == send_message(a.subs, u, outcome)
          IN  /\ subscribers' = r.subs
              /\ ev' = CmdEvent("subscribe", u, outcome)
    /\ UNCHANGED <<storeVars, today, cyc, instances, cronDay, phase, chats, calls, faults>>

\* /unsubscribe: unsubscribe_user, then the reply through send_message.
CmdUnsubscribe ==
    /\ phase = "run"
    /\ \E u \in chats, outcome \in SendOutcomes :
          LET a == unsubscribe_user(subscribers, u)
              r == send_message(a.subs, u, outcome)
          IN  /\ subscribers' = r.subs
              /\ ev' = CmdEvent("unsubscribe", u, outcome)
    /\ UNCHANGED <<storeVars, today, cyc, instances, cronDay, phase, chats, calls, faults>>

\* /new and /active: the query, then the reply through send_message.
CmdQuery ==
    /\ phase = "run"
    /\ \E u \in chats, op \in ReadOps, outcome \in SendOutcomes :
          /\ subscribers' = send_message(subscribers, u, outcome).subs
          /\ ev' = QueryEvent(op, u, outcome)
    /\ UNCHANGED <<storeVars, today, cyc, instances, cronDay, phase, chats, calls, faults>>

\* ------------------------------------------------------------------ main.py

\* main.py: init_database, then `if jobs := get_jobs(): save_jobs(DB_PATH, jobs)`,
\* before the bot and its scheduler start.
Boot ==
    /\ phase = "boot"
    /\ phase' = "run"
    /\ \E outcome \in FetchOutcomes :
          LET fetched == get_jobs(outcome)
              st == SaveLoop([rows |-> DeactivateAll(jobs), new |-> 0, updated |-> 0],
                             fetched, today)
          IN  IF ShouldReconcile(fetched)
              THEN /\ jobs' = st.rows
                   /\ hist' = [hist EXCEPT !.date = today]
                   /\ ev' = SaveEvent(fetched, today, jobs, st, Previous)
              ELSE /\ ev' = [op |-> "boot", ok |-> outcome.ok]
                   /\ UNCHANGED <<jobs, hist>>
    /\ UNCHANGED <<subscribers, today, sv, cyc, instances, cronDay, chats, calls, faults>>

\* The process is stopped between cycles and started again; the database file stays.
Restart ==
    /\ phase = "run"
    /\ cyc.pc = "idle"
    /\ phase' = "boot"
    /\ ev' = [op |-> "restart"]
    /\ UNCHANGED <<storeVars, subscribers, today, cyc, instances, cronDay, chats, calls, faults>>

\* The state when main.py starts on the database file `subs` subscribed to
\* in earlier runs (ph = "boot"), or when the bot starts to run on it after a
\* start-up whose fetch found nothing (ph = "run").
BotInit(ph, c, subs, f) ==
    /\ jobs = EmptyTable
    /\ subscribers = subs
    /\ today = 1
    /\ sv = SvIdle
    /\ cyc = CycIdle
    /\ instances = 0
    /\ cronDay = 0
    /\ phase = ph
    /\ chats = c
    /\ faults = f
    /\ calls = NoCalls
    /\ hist = NoHistory
    /\ ev = [op |-> "init"]

\* A fresh installation that SpecChats chats talk to.
Init == BotInit("boot", 1..SpecChats, {}, 0)

Next ==
    \/ Boot \/ Restart \/ NextDay \/ Trigger \/ Fetch
    \/ CycleSaveBegin \/ CycleSaveCommit \/ NotifyDaily \/ SendStep \/ Finish
    \/ CmdSubscribe \/ CmdUnsubscribe \/ CmdQuery

\* The bot from its installation on, with a store that never raises.
Spec == Init /\ [][Next]_vars

\* The cycles of a running bot that every user has subscribed to.
InitFanout == BotInit("run", Users, Users, 0)

NextFanout ==
    \/ NextDay \/ Trigger \/ Fetch
    \/ CycleSaveBegin \/ CycleSaveCommit \/ NotifyDaily \/ SendStep \/ Finish
    \/ CmdSubscribe \/ CmdUnsubscribe

SpecFanout == InitFanout /\ [][NextFanout]_vars

\* The cycles of a running bot with FaultChats subscribers and a store whose
\* operations may raise MaxFaults times.
InitFaults == BotInit("run", 1..FaultChats, 1..FaultChats, MaxFaults)

NextFaults == NextFanout \/ CycleSaveRaise \/ NotifyError

SpecFaults == InitFaults /\ [][NextFaults]_vars

\* The cycles and all commands of a running bot with LeaveChats subscribers
\* and a store that never raises.
InitLeave == BotInit("run", 1..LeaveChats, 1..LeaveChats, 0)

NextLeave == NextFanout \/ CmdQuery

SpecLeave == InitLeave /\ [][NextLeave]_vars

\* The steps of a running cycle that need nothing but the call in progress to
\* return: the fetch, the reconcile, the reads of the registry, each send and
\* the return of the scheduled callback.
CycleStep ==
    \/ Fetch \/ CycleSaveBegin \/ CycleSaveCommit \/ NotifyDaily \/ NotifyError
    \/ SendStep \/ Finish

\* The cycles of a running bot with LiveChats subscribers and a store whose
\* operations may raise LiveFaults times, where every call of a cycle returns
\* or raises.
InitLive == BotInit("run", 1..LiveChats, 1..LiveChats, LiveFaults)

NextLive == NextFaults \/ NotifyErrorRaise

SpecLive == InitLive /\ [][NextLive]_vars /\ WF_vars(CycleStep)

\* ------------------------------------------------------- db.py called directly

ApiSaveBegin ==
    /\ phase = "api"
    /\ \E cands \in CandLists : SaveBegin(cands)
    /\ ev' = [op |-> "save_jobs_begin"]
    /\ UNCHANGED <<jobs, hist, today, botVars>>

ApiSaveCommit ==
    /\ phase = "api"
    /\ SaveCommit
    /\ UNCHANGED <<today, botVars>>

ApiUpdateDate ==
    /\ phase = "api"
    /\ \E url \in Urls, date \in Days : update_discovery_date_by_url(url, date)
    /\ UNCHANGED <<today, sv, botVars>>

ApiRead ==
    /\ phase = "api"
    /\ \E op \in ReadOps : ev' = ReadEvent(op)
    /\ UNCHANGED <<jobs, hist, today, sv, botVars>>

InitStore ==
    /\ jobs = EmptyTable
    /\ subscribers = {}
    /\ today = 1
    /\ sv = SvIdle
    /\ cyc = CycIdle
    /\ instances = 0
    /\ cronDay = 0
    /\ phase = "api"
    /\ chats = {}
    /\ faults = 0
    /\ calls = NoCalls
    /\ hist = NoHistory
    /\ ev = [op |-> "init"]

NextStore == ApiSaveBegin \/ ApiSaveCommit \/ ApiUpdateDate \/ ApiRead \/ NextDay

SpecStore == InitStore /\ [][NextStore]_vars

\* ------------------------------------------- the registry called concurrently

\* subscribe_user up to `if cursor.fetchone()`: the SELECT on the caller's own
\* connection reads the committed rows.
SubscribeSelect ==
    /\ phase = "registry"
    /\ \E p \in Callers, u \in chats :
          /\ calls[p].pc = "idle"
          /\ calls' = [calls EXCEPT ![p] = [pc |-> "checked", u |-> u,
                                            found |-> is_subscribed(subscribers, u)]]
    /\ ev' = [op |-> "subscribe_select"]
    /\ UNCHANGED <<storeVars, subscribers, today, cyc, instances, cronDay, phase, chats, faults>>

\* INSERT INTO subscribers: user_id is the PRIMARY KEY, so the INSERT of an id
\* that has a row by now raises sqlite3.IntegrityError and the with block
\* passes it on.
InsertSubscriber(subs, u) ==
    IF u \in subs
    THEN [subs |-> subs, raised |-> TRUE, ret |-> FALSE]
    ELSE [subs |-> subs \cup {u}, raised |-> FALSE, ret |-> TRUE]

\* The rest of subscribe_user: return False if the SELECT found the id, and
\* else the INSERT, the commit and return True.
SubscribeFinish ==
    /\ phase = "registry"
    /\ \E p \in Callers :
          /\ calls[p].pc = "checked"
          /\ LET u == calls[p].u
                 r == IF calls[p].found
                      THEN [subs |-> subscribers, raised |-> FALSE, ret |-> FALSE]
                      ELSE InsertSubscriber(subscribers, u)
             IN  /\ subscribers' = r.subs
                 /\ ev' = [op |-> "subscribe_user", u |-> u, raised |-> r.raised,
                           ret |-> r.ret, pre |-> subscribers]
          /\ calls' = [calls EXCEPT ![p] = CallIdle]
    /\ UNCHANGED <<storeVars, today, cyc, instances, cronDay, phase, chats, faults>>

\* unsubscribe_user: one DELETE statement and its commit.
ApiUnsubscribe ==
    /\ phase = "registry"
    /\ \E u \in chats :
          LET r == unsubscribe_user(subscribers, u)
          IN  /\ subscribers' = r.subs
              /\ ev' = [op |-> "unsubscribe_user", u |-> u, ret |-> r.ret,
                        pre |-> subscribers,
                        again |-> (ev.op = "unsubscribe_user" /\ ev.u = u),
                        lastRet |-> (ev.op = "unsubscribe_user" /\ ev.u = u /\ ev.ret)]
    /\ UNCHANGED <<storeVars, today, cyc, instances, cronDay, phase, chats, calls, faults>>

ApiIsSubscribed ==
    /\ phase = "registry"
    /\ \E u \in chats :
          ev' = [op |-> "is_subscribed", u |-> u, ret |-> is_subscribed(subscribers, u)]
    /\ UNCHANGED <<storeVars, subscribers, today, cyc, instances, cronDay, phase, chats, calls, faults>>

\* The registry functions of db.py called by MaxCallers concurrent callers for
\* RegChats ids, each call on a connection of its own.
InitRegistry == BotInit("registry", 1..RegChats, {}, 0)

NextRegistry == SubscribeSelect \/ SubscribeFinish \/ ApiUnsubscribe \/ ApiIsSubscribed

SpecRegistry == InitRegistry /\ [][NextRegistry]_vars

\* ------------------------------------------------------------------ claims

\* The cycle has passed its fetch.
Fetched == cyc.pc \in {"save", "saving", "notify", "sending", "error", "done"}

\* The cycle has chosen its message.
Chosen == cyc.pc \in {"sending", "done"} /\ cyc.msg.template \in Templates

RowsOfUrl(rows, url) == {i \in DOMAIN rows : rows[i].url = url}

\* C1: after one save_jobs call, for every store state and candidate list, a
\* row is active exactly when its url occurs in the candidate list, every
\* candidate url has a row, and get_all_jobs(active_only) returns exactly the
\* postings of the candidate urls: a posting that was active before and is
\* absent from the candidates is inactive and is not returned.
C1_ActiveIsCandidates ==
    ev.op = "save_jobs" =>
        /\ \A i \in DOMAIN jobs : jobs[i].is_active <=> jobs[i].url \in SeqUrls(ev.cands)
        /\ SeqUrls(ev.cands) \subseteq RowUrls(jobs)
        /\ SeqUrls(get_all_jobs(ReadView, TRUE)) = SeqUrls(ev.cands)
        /\ \A u \in ActiveUrls(ev.pre) \ SeqUrls(ev.cands) :
               /\ \A i \in RowsOfUrl(jobs, u) : ~jobs[i].is_active
               /\ u \notin SeqUrls(get_all_jobs(ReadView, TRUE))

\* A reconcile of a non-empty list dropped a posting that was active before.
C1_Witness ==
    /\ ev.op = "save_jobs"
    /\ ev.cands # <<>>
    /\ ActiveUrls(ev.pre) \ SeqUrls(ev.cands) # {}
    /\ SeqUrls(ev.cands) \ ActiveUrls(ev.pre) # {}

\* C7: a posting that is inactive before a reconcile and whose url is among
\* the candidates keeps its first_seen, gets last_seen = the date of this
\* reconcile, is active, and still has one row; it counts as updated: new_count
\* is the number of candidate urls that had no row before.
C7_Reappearance ==
    ev.op = "save_jobs" =>
        /\ \A i \in DOMAIN ev.pre :
               (~ev.pre[i].is_active /\ ev.pre[i].url \in SeqUrls(ev.cands)) =>
                   /\ i \in DOMAIN jobs
                   /\ jobs[i].url = ev.pre[i].url
                   /\ jobs[i].first_seen = ev.pre[i].first_seen
                   /\ jobs[i].last_seen = ev.date
                   /\ jobs[i].is_active
                   /\ Cardinality(RowsOfUrl(jobs, ev.pre[i].url)) = 1
        /\ Len(jobs) = Len(ev.pre) + ev.new
        /\ ev.new = Cardinality(SeqUrls(ev.cands) \ RowUrls(ev.pre))
        /\ ev.new + ev.updated = Len(ev.cands)

\* A posting seen on an earlier day and inactive since is among the candidates.
C7_Witness ==
    /\ ev.op = "save_jobs"
    /\ \E i \in DOMAIN ev.pre :
           /\ ~ev.pre[i].is_active
           /\ ev.pre[i].url \in SeqUrls(ev.cands)
           /\ ev.pre[i].last_seen < ev.date
           /\ ev.pre[i].first_seen < ev.date
           /\ ev.updated >= 1

\* C8: a save_jobs call with the candidate list of the save_jobs call before
\* it returns new_count = 0 and leaves the set of active postings as the
\* first call left it.
C8_Idempotent ==
    (ev.op = "save_jobs" /\ ev.again) =>
        /\ ev.new = 0
        /\ ActiveUrls(jobs) = ev.lastActive
        /\ ActiveUrls(jobs) = ActiveUrls(ev.pre)

\* The same non-empty list was reconciled twice.
C8_Witness ==
    /\ ev.op = "save_jobs"
    /\ ev.again
    /\ ev.cands # <<>>
    /\ ev.updated = Len(ev.cands)
    /\ ActiveUrls(jobs) # {}

\* C2: from a failed fetch to the end of the cycle the jobs table is what it
\* was when the cycle started: no row inserted, none changed, and save_jobs
\* is not called.
C2_FailedFetchKeepsStore ==
    (Fetched /\ cyc.fetchFailed) =>
        /\ jobs = cyc.start
        /\ ~cyc.reconciled
        /\ sv.pc = "idle"

\* A cycle whose fetch failed has ended on a store with active postings.
C2_Witness ==
    /\ cyc.pc = "done"
    /\ cyc.fetchFailed
    /\ ActiveUrls(jobs) # {}
    /\ cyc.audience # {}

\* C3: a cycle whose fetch failed chooses the error template and sends it to
\* each subscriber once, and a cycle whose fetch succeeded with no candidates
\* does not choose the error template.
C3_FailedFetchSendsError ==
    /\ (Chosen /\ cyc.fetchFailed) => cyc.msg.template = "error"
    /\ (Chosen /\ ~cyc.fetchFailed /\ cyc.jobs = <<>>) => cyc.msg.template # "error"
    /\ (cyc.pc = "done" /\ cyc.fetchFailed) =>
           \A u \in cyc.audience : cyc.attempts[u] = <<"error">>

\* C4: at the end of a cycle whose fetch succeeded with an empty list no
\* posting of the store is active and both counts are 0.
C4_EmptyFetchReconciles ==
    (cyc.pc = "done" /\ ~cyc.fetchFailed /\ cyc.jobs = <<>>) =>
        /\ \A i \in DOMAIN jobs : ~jobs[i].is_active
        /\ cyc.new = 0 /\ cyc.updated = 0

\* C5: send_bulk sends to every id of its list, whatever happened to the ids
\* before it: a send that returns counts as successful and is delivered, a
\* send that fails counts as failed, a permanent failure leaves its recipient
\* unsubscribed when send_message returns, and when send_bulk returns every
\* id has had one attempt, successful + failed is the length of the list and
\* no exception left it.
C5_FanOutIsolation ==
    /\ (ev.op = "send_message" /\ ev.outcome \in PermanentErrors) =>
           ~ev.ret /\ ~is_subscribed(subscribers, ev.chat)
    /\ (ev.op = "send_message" /\ ev.outcome = "ok") =>
           ev.ret /\ ev.chat \in cyc.delivered
    /\ cyc.pc = "sending" =>
           /\ cyc.idx <= Len(cyc.list)
           /\ cyc.successful + cyc.failed = cyc.idx - 1
    /\ (cyc.pc = "done" /\ cyc.list # <<>>) =>
           /\ ~cyc.escaped
           /\ cyc.successful + cyc.failed = Len(cyc.list)
           /\ cyc.successful = Cardinality(cyc.delivered)
           /\ \A i \in DOMAIN cyc.list : Len(cyc.attempts[cyc.list[i]]) = 1

\* send_bulk([1, 2, 3]) has returned {successful: 2, failed: 1}: the send to 2
\* failed permanently, 1 and 3 were delivered, 2 is unsubscribed.
C5_Witness ==
    /\ cyc.pc = "done"
    /\ cyc.list = <<1, 2, 3>>
    /\ cyc.permanent = {2}
    /\ cyc.delivered = {1, 3}
    /\ cyc.successful = 2 /\ cyc.failed = 1
    /\ ~is_subscribed(subscribers, 2)
    /\ ev.op = "send_message" /\ ev.chat = 3

\* C6: at the end of every cycle, whatever its outcome, each id that the
\* cycle read from the registry for its notification and that is still
\* subscribed has had one notification attempt, and all of them carry one
\* template.
C6_OneNotificationEach ==
    cyc.pc = "done" =>
        /\ \A u \in cyc.audience \cap subscribers : Len(cyc.attempts[u]) = 1
        /\ \A u, v \in cyc.audience \cap subscribers : cyc.attempts[u] = cyc.attempts[v]

\* C9: a query that runs while save_jobs has its transaction open returns
\* what the store held before the call, and one that runs otherwise what the
\* last commit left; until the commit the committed rows are those from
\* before the call.
C9_ReadersSeeCommitted ==
    /\ sv.pc = "open" => jobs = sv.pre
    /\ ev.op \in ReadOps =>
           ev.result = RunQuery(ev.op, IF sv.pc = "open" THEN sv.pre ELSE jobs, today)

\* A query ran between the blanket deactivation and the commit and returned
\* the postings that were active before.
C9_Witness ==
    /\ ev.op \in ReadOps
    /\ sv.pc = "open"
    /\ sv.txn # sv.pre
    /\ ev.result # <<>>

\* C10: at most one instance of the cycle runs; a trigger that fires while
\* one runs starts nothing and leaves the running cycle as it was, a cycle
\* starts only from Idle, and when the cycle returns nothing is left to run.
C10_OneCycle ==
    /\ instances \in {0, 1}
    /\ instances = 1 <=> cyc.pc # "idle"
    /\ (ev.op = "trigger" /\ ~ev.started) => (ev.before.pc # "idle" /\ cyc = ev.before)
    /\ (ev.op = "trigger" /\ ev.started) => (ev.before.pc = "idle" /\ cyc.pc = "fetch")
    /\ ev.op = "finish" => (cyc.pc = "idle" /\ instances = 0)

\* The trigger of the next day fired while the cycle of the day before ran.
C10_Witness ==
    /\ ev.op = "trigger"
    /\ ~ev.started
    /\ cyc.pc # "idle"
    /\ instances = 1

\* C11: every started cycle returns the scheduler to Idle, also one that
\* raised in its reconcile, in its notification or while it sent the error
\* notification; what the cycle raises stops in the scheduled callback, and a
\* trigger that finds the scheduler Idle starts a cycle.
C11_CycleReturns ==
    /\ (instances > 0) ~> (instances = 0 /\ cyc.pc = "idle")
    /\ [](cyc.escaped => cyc.pc = "done")
    /\ []((ev.op = "trigger" /\ ev.before.pc = "idle") => (ev.started /\ cyc.pc = "fetch"))

\* The callback has returned from a cycle that raised while it sent the error
\* notification, and the scheduler is Idle.
C11_Witness ==
    /\ ev.op = "finish"
    /\ ev.escaped
    /\ faults = 0
    /\ instances = 0
    /\ cyc.pc = "idle"
    /\ cronDay < MaxDay

\* C12: every subscribe_user call returns True or False and raises nothing,
\* whatever other calls run at the same time; a call that returns True has
\* inserted the row of an id that had none, and the id is in the registry
\* after it.
C12_SubscribeIdempotent ==
    ev.op = "subscribe_user" =>
        /\ ~ev.raised
        /\ ev.ret => (~is_subscribed(ev.pre, ev.u) /\ is_subscribed(subscribers, ev.u))

\* C13: in every state no two rows of jobs have one url; every url of a
\* reconciled candidate list has a row; and no operation, reconcile or date
\* correction, deletes a row or changes the url of one.
C13_OneRowPerUrl ==
    /\ [](\A i, j \in DOMAIN jobs : jobs[i].url = jobs[j].url => i = j)
    /\ [](ev.op = "save_jobs" => SeqUrls(ev.cands) \subseteq RowUrls(jobs))
    /\ [][/\ Len(jobs') >= Len(jobs)
          /\ \A i \in DOMAIN jobs : jobs'[i].url = jobs[i].url]_vars

\* A reconcile named a stored url twice while another posting stayed inactive:
\* the table still has its two rows.
C13_Witness ==
    /\ ev.op = "save_jobs"
    /\ Len(ev.cands) = 2
    /\ ev.cands[1].url = ev.cands[2].url
    /\ ev.cands[1].url \in RowUrls(ev.pre)
    /\ Len(jobs) = 2
    /\ \E i \in DOMAIN jobs : ~jobs[i].is_active /\ jobs[i].first_seen # jobs[i].last_seen

\* The template that belongs to a cycle summary.
TemplateOf(new_count, updated_count, had_error) ==
    IF had_error THEN "error"
    ELSE IF new_count > 0 THEN "new"
    ELSE IF updated_count > 0 THEN "none_new"
    ELSE "no_jobs"

\* C14: the message a cycle sends carries exactly one of the four templates,
\* and which one is a function of the cycle's summary: the error template when
\* the cycle's except clause ran, else (a) when new_count > 0, else (b), with
\* at least one active posting counted, when candidates were reconciled, else
\* (c) when the fetch yielded no candidate.
C14_TemplateIsFunction ==
    /\ (cyc.pc \in {"sending", "done"} /\ cyc.list # <<>>) => cyc.msg.template \in Templates
    /\ Chosen =>
           /\ cyc.msg.template = TemplateOf(cyc.new, cyc.updated, cyc.mode = "error")
           /\ cyc.msg.template = "new" => cyc.msg.count = cyc.new
           /\ cyc.msg.template = "none_new" =>
                  (cyc.msg.total_active >= 1 /\ cyc.jobs # <<>>)
           /\ cyc.msg.template = "no_jobs" => cyc.jobs = <<>>

\* The reconcile of a cycle raised while the store held active postings, and
\* the cycle chose the error template.
C14_Witness ==
    /\ Chosen
    /\ cyc.msg.template = "error"
    /\ cyc.jobs # <<>>
    /\ ~cyc.reconciled
    /\ ActiveUrls(jobs) # {}
    /\ cyc.attempts = [u \in Users |-> <<>>]

\* C15: send_message returns False for every failure; after a failure that is
\* not permanent the registry is as it was, and after a permanent one it is
\* the registry without the recipient, removed when send_message returns; a
\* delivery changes nothing; and a fan-out attempts no recipient twice, so a
\* failed send is not repeated.
C15_TransientKeepsRegistry ==
    /\ [](\A subs \in SUBSET Users, u \in Users, o \in SendOutcomes :
             LET r == send_message(subs, u, o)
             IN  /\ r.ret <=> o = "ok"
                 /\ o \notin PermanentErrors => r.subs = subs
                 /\ o \in PermanentErrors => r.subs = subs \ {u})
    /\ [][ev'.op = "send_message" =>
            /\ ev'.ret <=> ev'.outcome = "ok"
            /\ subscribers' = IF ev'.outcome \in PermanentErrors
                              THEN subscribers \ {ev'.chat}
                              ELSE subscribers]_vars
    /\ [](\A u \in Users : Len(cyc.attempts[u]) <= 1)

\* A fan-out has ended with a send that timed out: its recipient is still
\* subscribed and was attempted once, while another recipient's permanent
\* failure removed that one.
C15_Witness ==
    /\ cyc.pc = "done"
    /\ ev.op = "send_message"
    /\ ev.outcome = "timed out"
    /\ ~ev.ret
    /\ is_subscribed(subscribers, ev.chat)
    /\ Len(cyc.attempts[ev.chat]) = 1
    /\ cyc.permanent # {}
    /\ cyc.permanent \cap subscribers = {}

\* C16: update_discovery_date_by_url returns True exactly when a posting has
\* the url; when none has, the table is as before; when one has, its
\* first_seen is the given date and its name, last_seen and is_active and
\* every other row are as before.
C16_DateCorrection ==
    ev.op = "update_discovery_date" =>
        /\ ev.ret <=> ev.url \in RowUrls(ev.pre)
        /\ ~ev.ret => jobs = ev.pre
        /\ DOMAIN jobs = DOMAIN ev.pre
        /\ \A i \in DOMAIN ev.pre :
               jobs[i] = IF ev.pre[i].url = ev.url
                         THEN [ev.pre[i] EXCEPT !.first_seen = ev.date]
                         ELSE ev.pre[i]

\* The first_seen of one of two postings was moved to another day.
C16_Witness ==
    /\ ev.op = "update_discovery_date"
    /\ ev.ret
    /\ Len(ev.pre) = 2
    /\ \E i \in DOMAIN ev.pre :
           /\ ev.pre[i].url = ev.url
           /\ ev.pre[i].first_seen # ev.date
           /\ jobs[i].first_seen = ev.date
    /\ \E i \in DOMAIN ev.pre : ev.pre[i].url # ev.url /\ ev.pre[i].first_seen # ev.date

\* C17: unsubscribe_user returns True exactly when the id had a row before
\* the call; after it the id is not subscribed and every other id is in the
\* registry exactly if it was before; the same call made again at once
\* returns False and changes nothing; and is_subscribed tells whether the id
\* has a row.
C17_UnsubscribeIdempotent ==
    /\ ev.op = "unsubscribe_user" =>
           /\ ev.ret <=> is_subscribed(ev.pre, ev.u)
           /\ ~is_subscribed(subscribers, ev.u)
           /\ subscribers \ {ev.u} = ev.pre \ {ev.u}
           /\ ev.again => (~ev.ret /\ subscribers = ev.pre)
    /\ ev.op = "is_subscribed" => (ev.ret <=> ev.u \in subscribers)

\* An id was unsubscribed, which returned True, and unsubscribed again at
\* once, which returned False, while another id stayed subscribed.
C17_Witness ==
    /\ ev.op = "unsubscribe_user"
    /\ ev.again
    /\ ev.lastRet
    /\ ~ev.ret
    /\ subscribers # {}

\* C18: no send of a cycle's fan-out is attempted to an id whose /unsubscribe
\* command has completed: the send that follows the command goes to another id.
C18_RegistryIsGate ==
    [][(ev.op = "unsubscribe" /\ ev'.op = "send_message") => ev'.chat # ev.u]_vars

\* C19: a message with the new-postings template, built on the day of its
\* cycle, enumerates exactly the postings that the cycle's reconcile inserted:
\* as many entries as new_count, whatever other postings have first_seen =
\* today.
C19_EnumeratesInserted ==
    (Chosen /\ cyc.msg.template = "new" /\ cronDay = today) =>
        /\ Len(cyc.msg.entries) = cyc.new
        /\ cyc.msg.count = cyc.new
        /\ SeqUrls(cyc.msg.entries) \cap RowUrls(cyc.start) = {}

\* The candidates whose url has no row when they are processed: the url had
\* none before the call and no earlier candidate of the list has it.
FirstOfAbsent(cands, pre) ==
    {i \in DOMAIN cands :
        /\ cands[i].url \notin RowUrls(pre)
        /\ \A j \in 1..(i - 1) : cands[j].url # cands[i].url}

\* The last candidate of the list with the url.
LastWith(cands, url) ==
    CHOOSE i \in DOMAIN cands :
        /\ cands[i].url = url
        /\ \A j \in DOMAIN cands : cands[j].url = url => j <= i

\* C20: save_jobs returns as new_count the number of candidates whose url had
\* no row when they were processed and as updated_count the number of the
\* others, so the two add up to the length of the list; each url of the list,
\* named once or twice, has one row, and its name is that of the last
\* candidate with the url.
C20_CountsAndLastWins ==
    ev.op = "save_jobs" =>
        /\ ev.new = Cardinality(FirstOfAbsent(ev.cands, ev.pre))
        /\ ev.updated = Len(ev.cands) - Cardinality(FirstOfAbsent(ev.cands, ev.pre))
        /\ ev.new + ev.updated = Len(ev.cands)
        /\ \A url \in SeqUrls(ev.cands) :
               /\ Cardinality(RowsOfUrl(jobs, url)) = 1
               /\ \A i \in RowsOfUrl(jobs, url) :
                      jobs[i].name = ev.cands[LastWith(ev.cands, url)].name

\* A batch named a url that had no row twice, under two names: one row was
\* inserted, counted once as new and once as updated, and it has the second
\* name.
C20_Witness ==
    /\ ev.op = "save_jobs"
    /\ Len(ev.cands) = 2
    /\ ev.cands[1].url = ev.cands[2].url
    /\ ev.cands[1].name # ev.cands[2].name
    /\ ev.cands[1].url \notin RowUrls(ev.pre)
    /\ ev.new = 1 /\ ev.updated = 1
    /\ Len(jobs) = Len(ev.pre) + 1
    /\ jobs[Len(jobs)].name = ev.cands[2].name

\* The operations that never write to table subscribers: the trigger, the
\* fetch, the reconcile, the reads of the notification and the callback's
\* return.
StoreOps ==
    {"midnight", "trigger", "get_jobs", "save_jobs_begin", "save_jobs",
     "notify_daily", "finish"}

\* C21: an id that leaves the registry in a step leaves it by its own
\* /unsubscribe command or by a permanent failure of a send addressed to it,
\* a notification of the fan-out or the reply to its own command; a send
\* removes no id but its recipient; and the reconcile, the other steps of
\* the cycle and a query whose reply did not fail permanently leave the
\* registry as it was.
C21_LeavesByOwnAct ==
    /\ [][\A a \in subscribers \ subscribers' :
            \/ ev'.op = "unsubscribe" /\ ev'.u = a
            \/ /\ ev'.op = "send_message"
               /\ ev'.chat = a
               /\ ev'.outcome \in PermanentErrors
            \/ /\ ev'.op \in {"subscribe"} \cup ReadOps
               /\ ev'.permanent
               /\ ev'.u = a]_vars
    /\ [][ev'.op \in StoreOps => subscribers' = subscribers]_vars
    /\ [][(ev'.op \in ReadOps /\ ~ev'.permanent) => subscribers' = subscribers]_vars

\* The send to 2 in a fan-out failed permanently after the send to 1 was
\* delivered: 2 has left the registry and 1 is in it.
C21_Witness ==
    /\ ev.op = "send_message"
    /\ ev.chat = 2
    /\ ev.outcome \in PermanentErrors
    /\ cyc.delivered = {1}
    /\ subscribers = {1}
    /\ cyc.reconciled

\* C22: once a save_jobs call has committed, every active posting has as
\* last_seen the current_date of the last call that committed; and, the days
\* only going forward, as long as no date correction has changed a row every
\* posting has first_seen <= last_seen.
C22_SeenDates ==
    hist.date # 0 =>
        /\ \A i \in DOMAIN jobs : jobs[i].is_active => jobs[i].last_seen = hist.date
        /\ ~hist.corrected =>
               \A i \in DOMAIN jobs : jobs[i].first_seen <= jobs[i].last_seen

\* After reconciles on two days and no date correction, a posting of the
\* first day is active with the second day as last_seen and another one is
\* inactive with the first day as last_seen.
C22_Witness ==
    /\ hist.date = 2
    /\ ~hist.corrected
    /\ \E i \in DOMAIN jobs :
           jobs[i].is_active /\ jobs[i].first_seen = 1 /\ jobs[i].last_seen = 2
    /\ \E i \in DOMAIN jobs : ~jobs[i].is_active /\ jobs[i].last_seen = 1
    /\ sv.pc = "idle"

=============================================================================
